---- MODULE Spec2Model ----
(***************************************************************************)
(* State machine of the maze game of src/src/App.tsx: the run state        *)
(* (START / PLAYING / WON / COUNTDOWN / GAMEOVER), the per-frame update,   *)
(* the ghost flags, the power-mode timer, the pellet counters, lives and   *)
(* stage, the win timers and the user commands.                            *)
(*                                                                         *)
(* Geometry is kept out of the state: the tile grid is held as the number  *)
(* of tiles of each code, and the facts update() computes from coordinates *)
(* (which tile lies under the player, which ghost or witch is within the   *)
(* collision distance, whether the player's centre entered a wall) are     *)
(* inputs of Tick, drawn with \E.  Every call of Math.random() is an input *)
(* as well.                                                                *)
(*                                                                         *)
(* React state: update() calls setLives with an updater function that has  *)
(* side effects (setGameState('GAMEOVER'), resetPositions()).  React       *)
(* queues updater functions and runs them, in order, during the render     *)
(* that follows the frame; by then every setState call of the frame body   *)
(* (setPopups at line 686 is made in every frame, so the component always  *)
(* has an update pending when a life is lost) is already in the queue.     *)
(* Tick is the frame body followed by that render.                         *)
(*                                                                         *)
(* Four specifications share the definitions.  Spec is the run state       *)
(* machine with every user command and timer; the score, which no other    *)
(* state depends on, is left out of it.  SpecScore is the same update with *)
(* the score, over runs, stage advances and restarts.  SpecFrame adds a    *)
(* record of each frame, within a stage.  SpecGrid keeps the maze as a     *)
(* grid and the player as a position, for the maze a stage starts with and *)
(* the movement block of update.                                           *)
(***************************************************************************)
EXTENDS Integers, Sequences, FiniteSets, TLC

VARIABLES
    gameState,      \* useState gameState (line 136)
    stage,          \* useState stage / stageRef (lines 146-147)
    lives,          \* useState lives (line 135)
    countdown,      \* useState countdown (line 140)
    tiles,          \* mazeRef (line 398), as the number of tiles per code
    totalPellets,   \* totalPelletsRef (line 400)
    eatenPellets,   \* eatenPelletsRef (line 401)
    powerMode,      \* powerModeRef (line 399)
    wallsLeft,      \* wallsLeftRef (line 143)
    ghosts,         \* ghostsRef (line 397): flags and deathTimer per ghost
    witches,        \* witchesRef (line 148): number of active witches
    timeouts,       \* pending setTimeout callbacks of line 775
    intervals,      \* running setInterval timers of line 778
    staleFrames,    \* bookkeeping: frames run while a win timer was pending
    stageWon,       \* history: the win check fired for the current maze
    respawned,      \* history: ghosts whose respawn draw succeeded in the last frame
    rare,           \* bookkeeping: low-probability draws that succeeded in this maze
    score,          \* useState score (line 134)
    frame,          \* history: what the last frame met and did (SpecFrame only)
    maze,           \* mazeRef (line 398) as a grid, maze[y][x] (SpecGrid only)
    pacman,         \* pacmanRef (line 396): x, y, dir, nextDir (SpecGrid only)
    gridFrames,     \* bookkeeping: frames of this run on the grid (SpecGrid only)
    ghostAt,        \* ghostsRef (line 397): x, y, dir per ghost (SpecChase only)
    sinceAligned,   \* history: frames since each followed ghost last stood
                    \* aligned with the tiles on both axes (line 711)
    keys,           \* bookkeeping: arrow keys pressed in this run (SpecWalk only)
    placing         \* position of initGame in its placement loops (lines 460-480),
                    \* with the iterations of the loop so far (SpecPlace only)

vars == <<gameState, stage, lives, countdown, tiles, totalPellets, eatenPellets,
          powerMode, wallsLeft, ghosts, witches, timeouts, intervals,
          staleFrames, stageWon, respawned, rare, score, frame, maze, pacman,
          gridFrames, ghostAt, sinceAligned, keys, placing>>

\* The variables of the grid view: Spec and SpecFrame hold the maze as tile
\* counts and take the player's position as an input of each frame.
gridVars == <<maze, pacman, gridFrames, ghostAt, sinceAligned, keys, placing>>

(***************************************************************************)
(* Sizes.  The source's values are given in the comments; the model runs   *)
(* the same code on a smaller grid with shorter timers.                    *)
(***************************************************************************)
GRID_WIDTH == 5
    \* 15 in the source (line 18)
GRID_HEIGHT == 5
    \* 21 in the source (line 19)
NumGhosts == 1
    \* COLORS.ghosts has 4 entries (lines 28-33)
NumCandies == 1
    \* 10 in the source (line 462)
NumTombstones == 1
    \* 3 in the source (line 473)
PowerTicks == 3
    \* 600 in the source (line 628)
DeathTicks == 2
    \* 30 in the source (line 745)
MaxStage == 2
    \* the stage counter is unbounded in the source
MaxChains == 1
    \* win timers (timeout, then interval) in flight at once
MaxBroken == 1
    \* walls broken per maze
MaxRare == 1
    \* successful low-probability draws of Math.random() per maze (bonus
    \* candy, fruit, witch spawn, ghost respawn: lines 763, 792, 801, 810)
MaxStaleFrames == 2
    \* frames that run while a win timer is pending (the timers of lines
    \* 775-788 take 5 seconds in all)
MaxScore == 150
    \* the score a run of SpecScore may reach
MaxFrameScore == 300
    \* the score a run of SpecFrame may reach
StepsPerTile == 2
    \* frames the player takes from a tile to the next: 9 in the source (36 / 4)
MaxGridFrames == 4
    \* frames of a run that SpecGrid follows
MaxChaseFrames == 5
    \* frames of a run that SpecChase follows
MaxWalkFrames == 9
    \* frames of a run that SpecWalk follows
MaxKeys == 2

\* Frames followed by SpecStray.
MaxStrayFrames == 8

\* Arrow keys pressed in a run of SpecStray.
MaxStrayKeys == 1
    \* arrow keys pressed in a run of SpecWalk
MaxAttempts == 5
    \* iterations of a placement loop of initGame that SpecPlace follows
RetryBudget == 3
    \* iterations the respawn loop is allowed: 100 in the source (line 635)
MazeTombstones == 2
    \* tombstones in a maze of SpecGrid: 3 in the source (line 473)
WallCharges == 1
    \* 5 in the source (line 629)

StartLives == 3
CountdownStart == 3
MaxWitches == 2

\* Tile codes of the maze (lines 41, 66, 71, 76, 466, 477, 805).
EMPTY == 0
WALL == 1
PELLET == 2
POWER_CANDY == 3
GHOST_SPAWN == 4
PACMAN_START == 5
TOMBSTONE == 6
FRUIT == 7

\* Lines 441 and 492: the player's speed; line 17: the tile, a whole number
\* of the player's steps wide.
PACMAN_SPEED == 4
TILE_SIZE == PACMAN_SPEED * StepsPerTile

\* Lines 20-21.
CANVAS_WIDTH == TILE_SIZE * GRID_WIDTH
CANVAS_HEIGHT == TILE_SIZE * GRID_HEIGHT

TileCodes == {EMPTY, WALL, PELLET, POWER_CANDY, GHOST_SPAWN, PACMAN_START, TOMBSTONE, FRUIT}
GameStates == {"START", "PLAYING", "GAMEOVER", "WON", "COUNTDOWN"}
GhostIds == 1..NumGhosts

----------------------------------------------------------------------------
(***************************************************************************)
(* generateMaze (lines 40-79).  A maze is indexed maze[y][x] as in the    *)
(* source.  The shuffle of line 45 is any order of the four directions;    *)
(* walk returns every maze the recursion can leave behind.                 *)
(***************************************************************************)
Cols == 0..(GRID_WIDTH - 1)
Rows == 0..(GRID_HEIGHT - 1)
Cells == Cols \X Rows

midX == GRID_WIDTH \div 2
midY == GRID_HEIGHT \div 2

\* maze[y][x] = code
SetTile(m, x, y, code) == [m EXCEPT ![y] = [m[y] EXCEPT ![x] = code]]

WalkDirs == {<<0, 2>>, <<0, -2>>, <<2, 0>>, <<-2, 0>>}

\* Line 49, the bounds test: the directions that stay inside the border.
\* A direction that fails it is skipped wherever the shuffle put it, so only
\* the order of the others matters.
InsideDirs(x, y) ==
    {d \in WalkDirs : /\ x + d[1] > 0 /\ x + d[1] < GRID_WIDTH - 1
                      /\ y + d[2] > 0 /\ y + d[2] < GRID_HEIGHT - 1}

RECURSIVE walk(_, _, _)
RECURSIVE walkFrom(_, _, _, _)

\* The for loop of lines 47-53 over the directions not yet tried, in every
\* order, from every maze in ms.
walkFrom(ms, x, y, left) ==
    IF left = {} THEN ms
    ELSE UNION {
           LET nx == x + d[1]
               ny == y + d[2]
               visit(m) ==
                   IF m[ny][nx] = WALL
                   THEN walk(SetTile(m, x + d[1] \div 2, y + d[2] \div 2, EMPTY), nx, ny)
                   ELSE {m}
           IN walkFrom(UNION {visit(m) : m \in ms}, x, y, left \ {d}) :
           d \in left}

walk(m, x, y) ==
    walkFrom({SetTile(m, x, y, EMPTY)}, x, y, InsideDirs(x, y))

\* Lines 58-76: ghost house, pellet fill, player start.
finishMaze(m) ==
    LET inHouse(x, y) == /\ x \in (midX - 1)..(midX + 1)
                         /\ y \in (midY - 1)..(midY + 1)
        m1 == [y \in Rows |-> [x \in Cols |-> IF inHouse(x, y) THEN EMPTY ELSE m[y][x]]]
        m2 == SetTile(m1, midX, midY, GHOST_SPAWN)
        m3 == [y \in Rows |-> [x \in Cols |-> IF m2[y][x] = EMPTY THEN PELLET ELSE m2[y][x]]]
    IN SetTile(m3, midX, GRID_HEIGHT - 2, PACMAN_START)

generateMaze ==
    {finishMaze(m) : m \in walk([y \in Rows |-> [x \in Cols |-> WALL]], 1, 1)}

CountTiles(m, codes) == Cardinality({c \in Cells : m[c[2]][c[1]] \in codes})

\* The tile counts of a maze.
TileCount(m) == [code \in TileCodes |-> CountTiles(m, {code})]

----------------------------------------------------------------------------
(***************************************************************************)
(* initGame (lines 404-487).                                               *)
(***************************************************************************)
RECURSIVE KSubsets(_, _)
\* The subsets of S with k elements: what a rejection-sampling loop that
\* runs until k tiles are placed can pick.  Empty when S is too small (the
\* loops of lines 462 and 473 then never end).
KSubsets(S, k) ==
    IF k = 0 THEN {{}}
    ELSE IF S = {} THEN {}
    ELSE LET x == CHOOSE e \in S : TRUE
         IN {t \cup {x} : t \in KSubsets(S \ {x}, k - 1)} \cup KSubsets(S \ {x}, k)

\* Lines 422-441 and 460-480 on one generated maze: the pellet count, the
\* player start turned to EMPTY, the candies, the tombstones.
StageLayoutsOf(m) ==
    LET total == CountTiles(m, {PELLET, POWER_CANDY})
        m1 == [y \in Rows |-> [x \in Cols |->
                  IF m[y][x] = PACMAN_START THEN EMPTY ELSE m[y][x]]]
        place(mz, cs, code) ==
            [y \in Rows |-> [x \in Cols |-> IF <<x, y>> \in cs THEN code ELSE mz[y][x]]]
        free(mz, codes) == {c \in Cells : mz[c[2]][c[1]] \in codes}
    IN UNION {
         {[tiles |-> TileCount(place(place(m1, cs, POWER_CANDY), ts, TOMBSTONE)),
           total |-> total] :
             ts \in KSubsets(free(place(m1, cs, POWER_CANDY), {PELLET, EMPTY}),
                             NumTombstones)} :
         cs \in KSubsets(free(m1, {PELLET}), NumCandies)}

StageLayouts == UNION {StageLayoutsOf(m) : m \in generateMaze}

\* Lines 418-441 and 460-480 on one generated maze, as grids: the player
\* start turned to EMPTY, NumCandies candies on PELLET tiles, then nt
\* tombstones on PELLET or EMPTY tiles.
StageMazesOf(m, nt) ==
    LET m1 == [y \in Rows |-> [x \in Cols |->
                  IF m[y][x] = PACMAN_START THEN EMPTY ELSE m[y][x]]]
        place(mz, cs, code) ==
            [y \in Rows |-> [x \in Cols |-> IF <<x, y>> \in cs THEN code ELSE mz[y][x]]]
        free(mz, codes) == {c \in Cells : mz[c[2]][c[1]] \in codes}
    IN UNION {
         {place(place(m1, cs, POWER_CANDY), ts, TOMBSTONE) :
             ts \in KSubsets(free(place(m1, cs, POWER_CANDY), {PELLET, EMPTY}), nt)} :
         cs \in KSubsets(free(m1, {PELLET}), NumCandies)}

\* The mazes a stage of SpecGrid starts with.
StageMazes == UNION {StageMazesOf(m, MazeTombstones) : m \in generateMaze}

\* Lines 433-441: the tile the player starts on.
SpawnTile == <<midX, GRID_HEIGHT - 2>>

\* Lines 441 and 492.
StartPacman ==
    [x |-> SpawnTile[1] * TILE_SIZE, y |-> SpawnTile[2] * TILE_SIZE,
     dir |-> "NONE", nextDir |-> "NONE"]

\* A variant of NewGhost: the ghost is created scared.
NewGhostScared == [isScared |-> TRUE, isEaten |-> FALSE, isDying |-> FALSE, deathTimer |-> 0]

\* Lines 446-458.
NewGhost == [isScared |-> FALSE, isEaten |-> FALSE, isDying |-> FALSE, deathTimer |-> 0]

\* A variant of InitLives: every new maze refills the lives.
InitLivesRefill(isNextStage, l) == StartLives

\* Lines 405-416: setLives(3) is called for a new run only.
InitLives(isNextStage, l) == IF isNextStage THEN l ELSE StartLives

InitScoreZero(isNextStage, sc) == 0

InitScoreKept(isNextStage, sc) == sc

\* Lines 412-416: only a new run puts the score back to 0.
InitScore(isNextStage, sc) == IF isNextStage THEN sc ELSE 0

\* No frame recorded.
NoFrame == [on |-> FALSE]

\* initGame is not in one of its placement loops.
NoPlacing == [loop |-> "none", placed |-> 0, attempts |-> 0]

initGame(isNextStage) ==
    /\ stage' = (IF isNextStage THEN stage + 1 ELSE 1)
    /\ lives' = InitLives(isNextStage, lives)
    /\ \E layout \in StageLayouts :
          /\ tiles' = layout.tiles
          /\ totalPellets' = layout.total
    /\ eatenPellets' = 0
    /\ witches' = 0
    /\ ghosts' = [g \in GhostIds |-> NewGhost]
    /\ wallsLeft' = 0
    /\ powerMode' = 0
    /\ stageWon' = FALSE
    /\ respawned' = {}
    /\ rare' = 0
    /\ score' = InitScore(isNextStage, score)
    /\ frame' = NoFrame
    /\ UNCHANGED gridVars

\* resetPositions (lines 489-501), on the ghost flags; deathTimer is left as it is.
resetPositionsKeepFlags(gs) == gs

resetPositions(gs) ==
    [g \in DOMAIN gs |->
        [gs[g] EXCEPT !.isScared = FALSE, !.isEaten = FALSE, !.isDying = FALSE]]

----------------------------------------------------------------------------
(***************************************************************************)
(* update (lines 548-840), block by block.                                 *)
(***************************************************************************)
Move(ts, from, to) ==
    [ts EXCEPT ![from] = ts[from] - 1, ![to] = ts[to] + 1]

\* A variant of WinReached: the stage is won once more was eaten than counted.
WinAboveTotal(eaten, total) == eaten > total

\* Line 770: eatenPellets / totalPellets >= 0.75.  With total = 0 the
\* quotient is NaN for eaten = 0 and Infinity otherwise.
WinReached(eaten, total) ==
    IF total = 0 THEN eaten > 0 ELSE 4 * eaten >= 3 * total

\* A variant of NextGameState: setGameState('WON') is applied last.
NextGameStateWinLast(gameOver, win) ==
    IF win THEN "WON" ELSE IF gameOver THEN "GAMEOVER" ELSE "PLAYING"

\* The setGameState calls of a frame, applied in the order they were queued:
\* 'WON' by the frame body (line 771), then 'GAMEOVER' by the setLives
\* updaters (lines 651, 753, 831) when the render runs them.
NextGameState(gameOver, win) ==
    IF gameOver THEN "GAMEOVER" ELSE IF win THEN "WON" ELSE "PLAYING"

LoseLivesAndReset(l, k) ==
    IF k = 0 THEN [lives |-> l, gameOver |-> FALSE, reset |-> FALSE]
    ELSE [lives |-> (IF l > k THEN l - k ELSE 0), gameOver |-> (l <= k), reset |-> TRUE]

\* Lines 650-655, 752-757, 830-835: the updater of setLives, run k times on l.
\* Returns the new lives, whether setGameState('GAMEOVER') was called and
\* whether resetPositions() was called.
RECURSIVE LoseLives(_, _)
LoseLives(l, k) ==
    IF k = 0 THEN [lives |-> l, gameOver |-> FALSE, reset |-> FALSE]
    ELSE IF l <= 1
         THEN LET r == LoseLives(0, k - 1)
              IN [r EXCEPT !.gameOver = TRUE]
         ELSE LET r == LoseLives(l - 1, k - 1)
              IN [r EXCEPT !.reset = TRUE]

\* Lines 698-708 and 739-765 for one ghost: hit says the ghost is within
\* the collision distance after it moved, draw says Math.random() < 0.005.
GhostUpdate(g, hit, draw) ==
    IF g.isDying
    THEN LET t == g.deathTimer - 1
         IN IF t <= 0
            THEN [g EXCEPT !.deathTimer = t, !.isDying = FALSE, !.isEaten = TRUE]
            ELSE [g EXCEPT !.deathTimer = t]
    ELSE LET g1 == IF hit /\ ~g.isEaten /\ ~g.isDying /\ g.isScared
                   THEN [g EXCEPT !.isScared = FALSE, !.isDying = TRUE,
                                  !.deathTimer = DeathTicks]
                   ELSE g
         IN IF g1.isEaten /\ draw THEN [g1 EXCEPT !.isEaten = FALSE] ELSE g1

\* Lines 741-759: the ghost costs a life.
GhostKills(g, hit) ==
    ~g.isDying /\ hit /\ ~g.isEaten /\ ~g.isScared

\* Lines 762-765 reached with a successful draw.
GhostRespawns(g, hit, draw) ==
    ~g.isDying /\ g.isEaten /\ draw

\* Line 631.
ScareGhosts(gs) ==
    [g \in DOMAIN gs |-> IF ~gs[g].isEaten THEN [gs[g] EXCEPT !.isScared = TRUE] ELSE gs[g]]

\* Lines 677-683.
PowerCountdown(p) == IF p > 0 THEN p - 1 ELSE p

\* A variant of UnscareIfOver: the flags are left as they are.
UnscareSkipped(before, after, gs) == gs

UnscareIfOver(before, after, gs) ==
    IF before > 0 /\ after = 0
    THEN [g \in DOMAIN gs |-> [gs[g] EXCEPT !.isScared = FALSE]]
    ELSE gs

\* Lines 570-594: the player's centre entered a WALL tile under power.
BreakWall(ts, brk) == IF brk THEN Move(ts, WALL, EMPTY) ELSE ts

\* Lines 616-675, the maze: the tile under the player is cleared.
ClearTile(ts, cell) == IF cell = EMPTY THEN ts ELSE Move(ts, cell, EMPTY)

\* Lines 633-644: the replacement candy lands on a PELLET or EMPTY tile
\* (spot), or every one of the 100 draws misses (spot = WALL).
RespawnCandy(ts, cell, spot) ==
    IF cell = POWER_CANDY /\ spot # WALL THEN Move(ts, spot, POWER_CANDY) ELSE ts

\* A variant of Eaten: only the power candy counts.
EatenCandyOnly(e, cell) == IF cell = POWER_CANDY THEN e + 1 ELSE e

\* Lines 618 and 624.
Eaten(e, cell) == IF cell \in {PELLET, POWER_CANDY} THEN e + 1 ELSE e

\* A variant of Charges: the tombstone takes a charge without the test of
\* line 662.
ChargesNoFloor(w, p, cell, brk) ==
    LET w1 == IF brk THEN w - 1 ELSE w
    IN IF cell = POWER_CANDY THEN WallCharges
       ELSE IF cell = TOMBSTONE /\ p # 0 THEN w1 - 1
       ELSE w1

\* A variant of Charges: breaking a wall takes no charge.
ChargesFreeWalls(w, p, cell, brk) ==
    IF cell = POWER_CANDY THEN WallCharges
    ELSE IF cell = TOMBSTONE /\ p # 0 /\ w > 0 THEN w - 1
    ELSE w

\* Lines 628-630, 662-665 and 576.
Charges(w, p, cell, brk) ==
    LET w1 == IF brk THEN w - 1 ELSE w
    IN IF cell = POWER_CANDY THEN WallCharges
       ELSE IF cell = TOMBSTONE /\ p # 0 /\ w1 > 0 THEN w1 - 1
       ELSE w1

\* Lines 579, 620, 626, 667, 672, 746: the points of a frame.
PelletScore == 10
CandyScore == 50
WallScore == 50
TombstoneScore == 100
FruitScore == 500
GhostScore == 200

\* A variant of ScoreGain: a tombstone gives no points.
ScoreGainNoTombstone(p, cell, brk, eatenGhosts) ==
    (IF brk THEN WallScore ELSE 0)
    + (CASE cell = PELLET -> PelletScore
         [] cell = POWER_CANDY -> CandyScore
         [] cell = FRUIT -> FruitScore
         [] OTHER -> 0)
    + GhostScore * eatenGhosts

ScoreGain(p, cell, brk, eatenGhosts) ==
    (IF brk THEN WallScore ELSE 0)
    + (CASE cell = PELLET -> PelletScore
         [] cell = POWER_CANDY -> CandyScore
         [] cell = TOMBSTONE -> (IF p # 0 THEN TombstoneScore ELSE 0)
         [] cell = FRUIT -> FruitScore
         [] OTHER -> 0)
    + GhostScore * eatenGhosts

\* Walls of the fresh maze that are gone.
BrokenWalls == (Cardinality(Cells) - totalPellets - 2) - tiles[WALL]

\* observed: "score" keeps the score, "frame" keeps the score and leaves the
\* record of the frame in frame, "none" keeps neither.
update(observed) ==
    /\ gameState = "PLAYING"
    /\ timeouts + intervals > 0 => staleFrames < MaxStaleFrames
    /\ \E brk \in {b \in BOOLEAN : b => /\ powerMode > 0 /\ wallsLeft > 0
                                        /\ tiles[WALL] > 0
                                        /\ BrokenWalls < MaxBroken} :
       \E cell \in {c \in {EMPTY, PELLET, POWER_CANDY, TOMBSTONE, FRUIT} :
                       /\ c # EMPTY => tiles[c] > 0
                       /\ brk => c = EMPTY} :
       LET t1 == ClearTile(BreakWall(tiles, brk), cell)
           e1 == Eaten(eatenPellets, cell)
           p1 == IF cell = POWER_CANDY THEN PowerTicks ELSE powerMode
           w1 == Charges(wallsLeft, powerMode, cell, brk)
           g1 == IF cell = POWER_CANDY THEN ScareGhosts(ghosts) ELSE ghosts
           tombLoss == IF cell = TOMBSTONE /\ powerMode = 0 THEN 1 ELSE 0
           p2 == PowerCountdown(p1)
           g2 == UnscareIfOver(p1, p2, g1)
           win == WinReached(e1, totalPellets)
       IN
       /\ win => timeouts + intervals < MaxChains
       /\ \E spot \in (IF cell = POWER_CANDY
                       THEN {WALL} \cup {sp \in {EMPTY, PELLET} : t1[sp] > 0}
                       ELSE {WALL}),
             hit \in {h \in [GhostIds -> BOOLEAN] :
                         \A g \in GhostIds : h[g] => ~g2[g].isDying /\ ~g2[g].isEaten},
             draw \in {d \in [GhostIds -> BOOLEAN] :
                         \A g \in GhostIds : d[g] => g2[g].isEaten /\ ~g2[g].isDying} :
          LET t2 == RespawnCandy(t1, cell, spot)
              g3 == [g \in GhostIds |-> GhostUpdate(g2[g], hit[g], draw[g])]
              ghostLoss == Cardinality({g \in GhostIds : GhostKills(g2[g], hit[g])})
              eatenGhosts == {g \in GhostIds : hit[g] /\ g2[g].isScared}
              gain == ScoreGain(powerMode, cell, brk, Cardinality(eatenGhosts))
              \* what is left of the budget of rare draws
              left == MaxRare - rare - Cardinality({g \in GhostIds : draw[g]})
          IN
          /\ observed = "score" => score + gain <= MaxScore
          /\ observed = "frame" => score + gain <= MaxFrameScore
          /\ left >= 0
          \* lines 791-807: the bonus candy and the fruit, on an EMPTY tile
          /\ \E bonus \in {b \in BOOLEAN : b => t2[EMPTY] > 0 /\ left > 0} :
             \E fruit \in {f \in BOOLEAN :
                              f => /\ t2[EMPTY] > (IF bonus THEN 1 ELSE 0)
                                   /\ left > (IF bonus THEN 1 ELSE 0)} :
             \* lines 809-839: witches spawn, hit the player, leave the screen
             \E spawn \in {sp \in BOOLEAN :
                              sp => /\ witches < MaxWitches
                                    /\ left > (IF bonus THEN 1 ELSE 0)
                                               + (IF fruit THEN 1 ELSE 0)},
                whit \in 0..witches :
             \E wout \in 0..(witches - whit) :
             \* the tile the player has just cleared may be the one the candy or
             \* the fruit of this frame is placed on (lines 636-641, 793-797, 802-806)
             \E land \in {"none"} \cup
                         (IF observed = "frame" /\ cell # EMPTY
                          THEN (IF cell = POWER_CANDY /\ spot = EMPTY THEN {"respawn"} ELSE {})
                               \cup (IF bonus THEN {"bonus"} ELSE {})
                               \cup (IF fruit THEN {"fruit"} ELSE {})
                          ELSE {}) :
                \* the render after the frame: the queued setLives updaters
                LET r == LoseLives(lives, tombLoss + ghostLoss + whit)
                    draws == Cardinality({g \in GhostIds : draw[g]})
                             + (IF bonus THEN 1 ELSE 0) + (IF fruit THEN 1 ELSE 0)
                             + (IF spawn THEN 1 ELSE 0)
                    t3 == IF bonus THEN Move(t2, EMPTY, POWER_CANDY) ELSE t2
                    t4 == IF fruit THEN Move(t3, EMPTY, FRUIT) ELSE t3
                IN
                /\ rare + draws <= MaxRare
                /\ rare' = rare + draws
                /\ tiles' = t4
                /\ eatenPellets' = e1
                /\ powerMode' = p2
                /\ wallsLeft' = w1
                /\ ghosts' = (IF r.reset THEN resetPositions(g3) ELSE g3)
                /\ witches' = witches + (IF spawn THEN 1 ELSE 0) - whit - wout
                /\ lives' = r.lives
                /\ gameState' = NextGameState(r.gameOver, win)
                /\ timeouts' = (IF win THEN timeouts + 1 ELSE timeouts)
                /\ stageWon' = (stageWon \/ win)
                /\ respawned' = {g \in GhostIds : GhostRespawns(g2[g], hit[g], draw[g])}
                /\ score' = (IF observed = "none" THEN score ELSE score + gain)
                /\ frame' = (IF observed = "frame"
                             THEN [on |-> TRUE, cell |-> cell, brk |-> brk,
                                   hit |-> hit, whit |-> whit,
                                   under |-> (CASE land \in {"respawn", "bonus"} -> POWER_CANDY
                                                [] land = "fruit" -> FRUIT
                                                [] OTHER -> EMPTY),
                                   popups |-> eatenGhosts,
                                   reset |-> r.reset]
                             ELSE NoFrame)
    /\ staleFrames' = (IF timeouts + intervals > 0 THEN staleFrames + 1 ELSE staleFrames)
    /\ UNCHANGED <<stage, countdown, totalPellets, intervals, gridVars>>

\* A frame of Spec.
Tick == update("none")

\* A frame of SpecScore.
Scored == update("score")

\* A frame of SpecFrame.
Frame == update("frame")

----------------------------------------------------------------------------
(***************************************************************************)
(* The grid view (SpecGrid): the maze as a grid, the player as a position, *)
(* and the frame with its movement block (lines 553-609) computed instead  *)
(* of drawn.  The ghosts and witches of a frame appear as the lives they   *)
(* cost.                                                                   *)
(***************************************************************************)
Dirs == {"UP", "DOWN", "LEFT", "RIGHT"}

\* Line 525.
buffer == 4

\* Math.floor(v / TILE_SIZE) and Math.round(v / TILE_SIZE).
FloorTile(v) == v \div TILE_SIZE
RoundTile(v) == (2 * v + TILE_SIZE) \div (2 * TILE_SIZE)

\* mazeRef.current[gridY]?.[gridX]; -1 stands for undefined.
TileAt(m, gridX, gridY) ==
    IF gridX \in Cols /\ gridY \in Rows THEN m[gridY][gridX] ELSE -1

\* A variant of canMove: a wall never stops the move.
canMoveAnyWall(m, x, y, dir, p, w) ==
    LET nextX == x + (CASE dir = "LEFT" -> -buffer
                        [] dir = "RIGHT" -> TILE_SIZE + buffer - 1
                        [] OTHER -> 0)
        nextY == y + (CASE dir = "UP" -> -buffer
                        [] dir = "DOWN" -> TILE_SIZE + buffer - 1
                        [] OTHER -> 0)
        gridX == FloorTile(nextX)
        gridY == FloorTile(nextY)
    IN IF gridX < 0 \/ gridX >= GRID_WIDTH THEN TRUE
       ELSE IF gridY < 0 \/ gridY >= GRID_HEIGHT THEN FALSE
       ELSE TRUE

\* A variant of canMove: a wall stops the move whatever the power timer and
\* the charges.
canMoveNoPower(m, x, y, dir, p, w) ==
    LET nextX == x + (CASE dir = "LEFT" -> -buffer
                        [] dir = "RIGHT" -> TILE_SIZE + buffer - 1
                        [] OTHER -> 0)
        nextY == y + (CASE dir = "UP" -> -buffer
                        [] dir = "DOWN" -> TILE_SIZE + buffer - 1
                        [] OTHER -> 0)
        gridX == FloorTile(nextX)
        gridY == FloorTile(nextY)
    IN IF gridX < 0 \/ gridX >= GRID_WIDTH THEN TRUE
       ELSE IF gridY < 0 \/ gridY >= GRID_HEIGHT THEN FALSE
       ELSE m[gridY][gridX] # WALL

\* canMove (lines 522-546) on maze m with power timer p and w charges.
canMove(m, x, y, dir, p, w) ==
    LET nextX == x + (CASE dir = "LEFT" -> -buffer
                        [] dir = "RIGHT" -> TILE_SIZE + buffer - 1
                        [] OTHER -> 0)
        nextY == y + (CASE dir = "UP" -> -buffer
                        [] dir = "DOWN" -> TILE_SIZE + buffer - 1
                        [] OTHER -> 0)
        gridX == FloorTile(nextX)
        gridY == FloorTile(nextY)
    IN IF gridX < 0 \/ gridX >= GRID_WIDTH THEN TRUE
       ELSE IF gridY < 0 \/ gridY >= GRID_HEIGHT THEN FALSE
       ELSE IF m[gridY][gridX] = WALL THEN p > 0 /\ w > 0
       ELSE TRUE

\* Lines 553-603: the turn, the step, the wall break, the snap and the wrap.
\* Returns the player, the maze and whether a wall was broken.
MovePacman(m, pm, p, w) ==
    LET isAtIntersection == pm.x % TILE_SIZE = 0 /\ pm.y % TILE_SIZE = 0
        turns == /\ pm.nextDir # "NONE"
                 /\ isAtIntersection
                 /\ canMove(m, pm.x, pm.y, pm.nextDir, p, w)
        dir == IF turns THEN pm.nextDir ELSE pm.dir
        nextDir == IF turns THEN "NONE" ELSE pm.nextDir
        moves == canMove(m, pm.x, pm.y, dir, p, w)
        x1 == IF moves
              THEN pm.x + (CASE dir = "LEFT" -> -PACMAN_SPEED
                             [] dir = "RIGHT" -> PACMAN_SPEED
                             [] OTHER -> 0)
              ELSE IF ~isAtIntersection THEN RoundTile(pm.x) * TILE_SIZE ELSE pm.x
        y1 == IF moves
              THEN pm.y + (CASE dir = "UP" -> -PACMAN_SPEED
                             [] dir = "DOWN" -> PACMAN_SPEED
                             [] OTHER -> 0)
              ELSE IF ~isAtIntersection THEN RoundTile(pm.y) * TILE_SIZE ELSE pm.y
        gridX == FloorTile(x1 + TILE_SIZE \div 2)
        gridY == FloorTile(y1 + TILE_SIZE \div 2)
        brk == moves /\ p > 0 /\ w > 0 /\ TileAt(m, gridX, gridY) = WALL
        x2 == IF x1 < -TILE_SIZE THEN CANVAS_WIDTH
              ELSE IF x1 > CANVAS_WIDTH THEN -TILE_SIZE
              ELSE x1
    IN [pacman |-> [x |-> x2, y |-> y1, dir |-> dir, nextDir |-> nextDir],
        maze |-> (IF brk THEN SetTile(m, gridX, gridY, EMPTY) ELSE m),
        brk |-> brk]

\* Line 451.
GHOST_SPEED == 2

\* Lines 446-450 and 493-496: ghost i (from 0) starts a tile to the left or to
\* the right of the middle tile, heading up.
StartGhost(g) ==
    [x |-> (midX + (IF (g - 1) % 2 = 0 THEN -1 ELSE 1)) * TILE_SIZE,
     y |-> midY * TILE_SIZE,
     dir |-> "UP"]

\* Lines 714-717: the heading a ghost does not turn to.
Opposite(d) ==
    CASE d = "UP" -> "DOWN"
      [] d = "DOWN" -> "UP"
      [] d = "LEFT" -> "RIGHT"
      [] d = "RIGHT" -> "LEFT"
      [] OTHER -> "NONE"

\* Line 711: the ghost at a is aligned with the tiles on both axes.
GhostAligned(a) == a.x % TILE_SIZE = 0 /\ a.y % TILE_SIZE = 0

\* Lines 710-727: the headings the ghost at a may take in this frame, on maze
\* m with the player's power timer p and w charges.
GhostChoices(m, a, p, w) ==
    LET validDirs == {d \in Dirs : d # Opposite(a.dir) /\ canMove(m, a.x, a.y, d, p, w)}
        anyValid == IF canMove(m, a.x, a.y, "UP", p, w) THEN "UP"
                    ELSE IF canMove(m, a.x, a.y, "DOWN", p, w) THEN "DOWN"
                    ELSE IF canMove(m, a.x, a.y, "LEFT", p, w) THEN "LEFT"
                    ELSE IF canMove(m, a.x, a.y, "RIGHT", p, w) THEN "RIGHT"
                    ELSE "NONE"
    IN IF GhostAligned(a)
       THEN (IF validDirs # {} THEN validDirs ELSE {anyValid})
       ELSE {a.dir}

\* Lines 698-708 and 729-737: where the ghost at a with flags f is after the
\* frame in which it heads to d.
GhostStep(a, f, d) ==
    IF f.isDying
    THEN (IF f.deathTimer - 1 <= 0
          THEN [a EXCEPT !.x = midX * TILE_SIZE, !.y = midY * TILE_SIZE]
          ELSE [a EXCEPT !.y = a.y - 2])
    ELSE LET speed == IF f.isScared THEN GHOST_SPEED \div 2 ELSE GHOST_SPEED
             x1 == a.x + (CASE d = "LEFT" -> -speed [] d = "RIGHT" -> speed [] OTHER -> 0)
             y1 == a.y + (CASE d = "UP" -> -speed [] d = "DOWN" -> speed [] OTHER -> 0)
             x2 == IF x1 < -TILE_SIZE THEN CANVAS_WIDTH
                   ELSE IF x1 > CANVAS_WIDTH THEN -TILE_SIZE
                   ELSE x1
         IN [x |-> x2, y |-> y1, dir |-> d]

\* Lines 739-740: the ghost at a is closer to the player than 0.8 tile.
GhostNear(pm, a) ==
    100 * ((pm.x - a.x) * (pm.x - a.x) + (pm.y - a.y) * (pm.y - a.y))
        < 64 * TILE_SIZE * TILE_SIZE

\* Lines 605-609.
OutOfBounds(pm) ==
    \/ pm.x < -TILE_SIZE * 2 \/ pm.x > CANVAS_WIDTH + TILE_SIZE * 2
    \/ pm.y < -TILE_SIZE * 2 \/ pm.y > CANVAS_HEIGHT + TILE_SIZE * 2

\* update (lines 548-840) on the grid.  The bonus candy and fruit (lines
\* 791-807), which touch EMPTY tiles only, are not drawn.  With tracked
\* FALSE, contact is the number of lives the ghosts and witches of the frame
\* cost, and the flags of the ghosts follow the power candy, the countdown
\* and resetPositions only.  With tracked TRUE the ghosts are followed on the
\* grid (lines 697-766).  cap is the number of frames followed and contacts
\* the numbers of lives that witches (and untracked ghosts) may cost in a frame.
\* sinceAligned counts, per followed ghost, the frames since it last stood
\* aligned with the tiles.
GridUpdate(tracked, cap, contacts) ==
    /\ gameState = "PLAYING"
    /\ gridFrames < cap
    /\ gridFrames' = gridFrames + 1
    /\ \E mv \in {MovePacman(maze, pacman, powerMode, wallsLeft)} :
       \* line 551: the tile is read at the position the frame moved to
       \E gridX \in {RoundTile(mv.pacman.x)}, gridY \in {RoundTile(mv.pacman.y)} :
       \E cell \in {TileAt(mv.maze, gridX, gridY)} :
       \E m1 \in {IF cell \in {PELLET, POWER_CANDY, TOMBSTONE, FRUIT}
                   THEN SetTile(mv.maze, gridX, gridY, EMPTY) ELSE mv.maze} :
       LET oob == OutOfBounds(mv.pacman)
           e1 == Eaten(eatenPellets, cell)
           p1 == IF cell = POWER_CANDY THEN PowerTicks ELSE powerMode
           w1 == Charges(wallsLeft, powerMode, cell, mv.brk)
           g0 == IF oob THEN resetPositions(ghosts) ELSE ghosts
           g1 == IF cell = POWER_CANDY THEN ScareGhosts(g0) ELSE g0
           tombLoss == IF cell = TOMBSTONE /\ powerMode = 0 THEN 1 ELSE 0
           p2 == PowerCountdown(p1)
           g2 == UnscareIfOver(p1, p2, g1)
           win == WinReached(e1, totalPellets)
       IN
       /\ mv.brk => BrokenWalls < MaxBroken
       /\ win => timeouts + intervals < MaxChains
       \* lines 633-644: the candy respawns on a PELLET or EMPTY tile, or not
       /\ \E spot \in (IF cell = POWER_CANDY
                        THEN {c \in Cells : m1[c[2]][c[1]] \in {PELLET, EMPTY}}
                        ELSE {}) \cup {<<-1, -1>>},
             contact \in contacts :
          \E m2 \in {IF spot \in Cells
                      THEN SetTile(m1, spot[1], spot[2], POWER_CANDY) ELSE m1} :
          \* line 608: resetPositions puts the ghosts back before their loop
          \E a0 \in {IF oob THEN [g \in GhostIds |-> StartGhost(g)] ELSE ghostAt} :
          \E heading \in (IF tracked
                          THEN {h \in [GhostIds -> Dirs \cup {"NONE"}] :
                                   \A g \in GhostIds :
                                       h[g] \in GhostChoices(m2, a0[g], p2, w1)}
                          ELSE {<<>>}),
             draw \in (IF tracked
                       THEN {d \in [GhostIds -> BOOLEAN] :
                                \A g \in GhostIds : d[g] => g2[g].isEaten /\ ~g2[g].isDying}
                       ELSE {<<>>}) :
          \E a1 \in {IF tracked
                      THEN [g \in GhostIds |-> GhostStep(a0[g], g2[g], heading[g])]
                      ELSE a0} :
          LET \* line 551: the frame keeps the player it started with
              hit == [g \in GhostIds |-> tracked /\ GhostNear(mv.pacman, a1[g])]
              g3 == IF tracked
                    THEN [g \in GhostIds |-> GhostUpdate(g2[g], hit[g], draw[g])]
                    ELSE g2
              ghostLoss == Cardinality({g \in GhostIds : GhostKills(g2[g], hit[g])})
              eatenGhosts == {g \in GhostIds : /\ hit[g] /\ g2[g].isScared
                                               /\ ~g2[g].isEaten /\ ~g2[g].isDying}
          IN
          \* the render after the frame: the queued setLives updaters
          \E r \in {LoseLives(lives, tombLoss + ghostLoss + contact)} :
          /\ score' = score + ScoreGain(powerMode, cell, mv.brk, Cardinality(eatenGhosts))
          /\ maze' = m2
          /\ tiles' = TileCount(m2)
          /\ pacman' = (IF r.reset \/ oob THEN StartPacman ELSE mv.pacman)
          /\ ghostAt' = (IF r.reset THEN [g \in GhostIds |-> StartGhost(g)] ELSE a1)
          /\ sinceAligned' = [g \in GhostIds |->
                               IF ~tracked \/ r.reset \/ GhostAligned(a1[g]) THEN 0
                               ELSE IF sinceAligned[g] < TILE_SIZE
                                    THEN sinceAligned[g] + 1 ELSE TILE_SIZE]
          /\ eatenPellets' = e1
          /\ powerMode' = p2
          /\ wallsLeft' = w1
          /\ ghosts' = (IF r.reset THEN resetPositions(g3) ELSE g3)
          /\ lives' = r.lives
          /\ gameState' = NextGameState(r.gameOver, win)
          /\ timeouts' = (IF win THEN timeouts + 1 ELSE timeouts)
          /\ stageWon' = (stageWon \/ win)
    /\ respawned' = {}
    /\ frame' = NoFrame
    /\ UNCHANGED <<stage, countdown, totalPellets, intervals, witches, staleFrames,
                   rare, keys, placing>>

GridFrame == GridUpdate(FALSE, MaxGridFrames, 0..1)

\* The frames of a run in which no witch is on the screen.
ChaseFrame == GridUpdate(TRUE, MaxChaseFrames, {0})

\* The frames of a run in which no ghost and no witch comes near the player.
WalkFrame == GridUpdate(FALSE, MaxWalkFrames, {0})

\* initGame(false) (lines 404-487) on the grid, called by startGame.
startGrid ==
    /\ gameState = "START"
    /\ gameState' = "PLAYING"
    /\ \E m \in generateMaze :
          /\ totalPellets' = CountTiles(m, {PELLET, POWER_CANDY})
          /\ \E mz \in StageMazesOf(m, MazeTombstones) :
                /\ maze' = mz
                /\ tiles' = TileCount(mz)
    /\ pacman' = StartPacman
    /\ ghostAt' = [g \in GhostIds |-> StartGhost(g)]
    /\ sinceAligned' = [g \in GhostIds |-> 0]
    /\ gridFrames' = 0
    /\ keys' = 0
    /\ placing' = NoPlacing
    /\ stage' = 1
    /\ lives' = InitLives(FALSE, lives)
    /\ eatenPellets' = 0
    /\ witches' = 0
    /\ ghosts' = [g \in GhostIds |-> NewGhost]
    /\ wallsLeft' = 0
    /\ powerMode' = 0
    /\ stageWon' = FALSE
    /\ respawned' = {}
    /\ rare' = 0
    /\ score' = InitScore(FALSE, score)
    /\ frame' = NoFrame
    /\ UNCHANGED <<countdown, timeouts, intervals, staleFrames>>

\* initGame(false) (lines 404-459), called by startGame, up to its placement
\* loops: the maze is generated and counted, the player's start tile emptied.
beginPlace ==
    /\ gameState = "START"
    /\ placing.loop = "none"
    /\ \E m \in generateMaze :
          /\ totalPellets' = CountTiles(m, {PELLET, POWER_CANDY})
          /\ \E m1 \in {[y \in Rows |-> [x \in Cols |->
                         IF m[y][x] = PACMAN_START THEN EMPTY ELSE m[y][x]]]} :
                /\ maze' = m1
                /\ tiles' = TileCount(m1)
    /\ placing' = [loop |-> "candies", placed |-> 0, attempts |-> 0]
    /\ pacman' = StartPacman
    /\ ghostAt' = [g \in GhostIds |-> StartGhost(g)]
    /\ sinceAligned' = [g \in GhostIds |-> 0]
    /\ ghosts' = [g \in GhostIds |-> NewGhost]
    /\ stage' = 1
    /\ lives' = InitLives(FALSE, lives)
    /\ score' = InitScore(FALSE, score)
    /\ eatenPellets' = 0
    /\ witches' = 0
    /\ UNCHANGED <<gameState, countdown, powerMode, wallsLeft, timeouts, intervals,
                   staleFrames, stageWon, respawned, rare, frame, gridFrames, keys>>

\* One iteration of the loop of lines 462-469 (candies, on PELLET tiles) or
\* of lines 473-480 (tombstones, on PELLET or EMPTY tiles): a tile is drawn
\* and taken if it is eligible.  The loop ends when enough are placed; after
\* the second loop initGame ends (lines 482-486) and startGame sets
\* PLAYING (line 1125).
PlaceAttempt ==
    /\ placing.loop \in {"candies", "tombstones"}
    /\ placing.attempts < MaxAttempts
    /\ \E c \in Cells :
          LET candies == placing.loop = "candies"
              eligible == maze[c[2]][c[1]] \in (IF candies THEN {PELLET} ELSE {PELLET, EMPTY})
              m1 == IF eligible
                    THEN SetTile(maze, c[1], c[2], IF candies THEN POWER_CANDY ELSE TOMBSTONE)
                    ELSE maze
              n == placing.placed + (IF eligible THEN 1 ELSE 0)
              done == n >= (IF candies THEN NumCandies ELSE MazeTombstones)
          IN /\ maze' = m1
             /\ tiles' = TileCount(m1)
             /\ placing' = (IF ~done
                            THEN [placing EXCEPT !.placed = n, !.attempts = @ + 1]
                            ELSE IF candies
                            THEN [loop |-> "tombstones", placed |-> 0, attempts |-> 0]
                            ELSE NoPlacing)
             /\ gameState' = (IF done /\ ~candies THEN "PLAYING" ELSE gameState)
             /\ powerMode' = (IF done /\ ~candies THEN 0 ELSE powerMode)
             /\ wallsLeft' = (IF done /\ ~candies THEN 0 ELSE wallsLeft)
    /\ UNCHANGED <<stage, lives, countdown, totalPellets, eatenPellets, ghosts, witches,
                   timeouts, intervals, staleFrames, stageWon, respawned, rare, score,
                   frame, pacman, gridFrames, ghostAt, sinceAligned, keys>>

\* handleKeyDown with an arrow key (lines 509-514); counted TRUE keeps the
\* number of presses of the run and stops at MaxKeys.
KeyDown(counted) ==
    /\ counted => keys < MaxKeys
    /\ keys' = (IF counted THEN keys + 1 ELSE keys)
    /\ \E d \in Dirs : pacman' = [pacman EXCEPT !.nextDir = d]
    /\ UNCHANGED <<gameState, stage, lives, countdown, tiles, totalPellets, eatenPellets,
                   powerMode, wallsLeft, ghosts, witches, timeouts, intervals,
                   staleFrames, stageWon, respawned, rare, score, frame, maze,
                   gridFrames, ghostAt, sinceAligned, placing>>

ArrowKey == KeyDown(FALSE)

WalkKey == KeyDown(TRUE)

----------------------------------------------------------------------------
(***************************************************************************)
(* User commands and timers.                                               *)
(***************************************************************************)
\* startGame (lines 1121-1126): the START button (line 1375) and a press
\* on the canvas (lines 1158-1163) call it while the title is shown.
startGame ==
    /\ gameState = "START"
    /\ initGame(FALSE)
    /\ gameState' = "PLAYING"
    /\ UNCHANGED <<countdown, timeouts, intervals, staleFrames>>

\* handleKeyDown with Escape (lines 503-508); the listener is never removed.
Escape ==
    /\ gameState' = "GAMEOVER"
    /\ UNCHANGED <<stage, lives, countdown, tiles, totalPellets, eatenPellets,
                   powerMode, wallsLeft, ghosts, witches, timeouts, intervals,
                   staleFrames, stageWon, respawned, rare, score, gridVars>>
    /\ frame' = NoFrame

\* The Title button of the game-over overlay (lines 1384-1400).
Title ==
    /\ gameState = "GAMEOVER"
    /\ gameState' = "START"
    /\ UNCHANGED <<stage, lives, countdown, tiles, totalPellets, eatenPellets,
                   powerMode, wallsLeft, ghosts, witches, timeouts, intervals,
                   staleFrames, stageWon, respawned, rare, score, gridVars>>
    /\ frame' = NoFrame

\* handleQuit (lines 1230-1233); the QUIT button is rendered while PLAYING
\* (lines 1293, 1334-1340).
handleQuit ==
    /\ gameState = "PLAYING"
    /\ gameState' = "START"
    /\ UNCHANGED <<stage, lives, countdown, tiles, totalPellets, eatenPellets,
                   powerMode, wallsLeft, ghosts, witches, timeouts, intervals,
                   staleFrames, stageWon, respawned, rare, score, gridVars>>
    /\ frame' = NoFrame

\* The callback of setTimeout (lines 775-788).
WinTimeout ==
    /\ timeouts > 0
    /\ timeouts' = timeouts - 1
    /\ gameState' = "COUNTDOWN"
    /\ countdown' = CountdownStart
    /\ intervals' = intervals + 1
    /\ UNCHANGED <<stage, lives, tiles, totalPellets, eatenPellets, powerMode,
                   wallsLeft, ghosts, witches, staleFrames, stageWon, respawned, rare,
                   score, gridVars>>
    /\ frame' = NoFrame

\* nextStage (lines 1128-1131).
nextStage ==
    /\ initGame(TRUE)
    /\ gameState' = "PLAYING"

\* One firing of the setInterval callback (lines 778-787).
CountdownTick ==
    /\ intervals > 0
    /\ IF countdown <= 1
       THEN /\ stage < MaxStage
            /\ intervals' = intervals - 1
            /\ nextStage
            /\ countdown' = 0
            /\ staleFrames' = 0
            /\ UNCHANGED timeouts
       ELSE /\ countdown' = countdown - 1
            /\ UNCHANGED <<gameState, stage, lives, tiles, totalPellets, eatenPellets,
                           powerMode, wallsLeft, ghosts, witches, timeouts, intervals,
                           staleFrames, stageWon, respawned, rare, score, gridVars>>
            /\ frame' = NoFrame

----------------------------------------------------------------------------
\* The state after the component mounted (lines 134-148, 396-402): no maze
\* and no ghosts yet.
Init ==
    /\ gameState = "START"
    /\ stage = 1
    /\ lives = StartLives
    /\ countdown = CountdownStart
    /\ tiles = [code \in TileCodes |-> 0]
    /\ totalPellets = 0
    /\ eatenPellets = 0
    /\ powerMode = 0
    /\ wallsLeft = 0
    /\ ghosts = <<>>
    /\ witches = 0
    /\ timeouts = 0
    /\ intervals = 0
    /\ staleFrames = 0
    /\ stageWon = FALSE
    /\ respawned = {}
    /\ rare = 0
    /\ score = 0
    /\ frame = NoFrame
    /\ maze = <<>>
    /\ gridFrames = 0
    /\ ghostAt = <<>>
    /\ sinceAligned = <<>>
    /\ keys = 0
    /\ placing = NoPlacing
    /\ pacman = [x |-> 9 * TILE_SIZE, y |-> 15 * TILE_SIZE, dir |-> "NONE", nextDir |-> "NONE"]

Next ==
    \/ Tick
    \/ startGame
    \/ Escape
    \/ Title
    \/ handleQuit
    \/ WinTimeout
    \/ CountdownTick

Spec == Init /\ [][Next]_vars

\* The frames with their score, the start of a run, the stage advance and
\* the way from a lost run back to the title.
NextScore ==
    \/ Scored
    \/ startGame
    \/ Title
    \/ WinTimeout
    \/ CountdownTick

SpecScore == Init /\ [][NextScore]_vars

\* The frames of a stage with their score and record.
NextFrame ==
    \/ Frame
    \/ startGame

SpecFrame == Init /\ [][NextFrame]_vars

\* The start of a run, the arrow keys and the frames, on the grid.
NextGrid ==
    \/ GridFrame
    \/ startGrid
    \/ ArrowKey

\* The first frames of a run with the ghosts followed on the grid.
NextChase ==
    \/ ChaseFrame
    \/ startGrid
    \/ ArrowKey

SpecChase == Init /\ [][NextChase]_vars

\* A longer run with the ghosts followed, of a player who presses few keys.
StrayFrame == GridUpdate(TRUE, MaxStrayFrames, {0})

\* handleKeyDown for a player who presses at most MaxStrayKeys arrow keys.
StrayKey ==
    /\ keys < MaxStrayKeys
    /\ KeyDown(TRUE)

NextStray ==
    \/ StrayFrame
    \/ startGrid
    \/ StrayKey

SpecStray == Init /\ [][NextStray]_vars

\* A longer run of a player who presses few keys and meets no ghost.
NextWalk ==
    \/ WalkFrame
    \/ startGrid
    \/ WalkKey

SpecWalk == Init /\ [][NextWalk]_vars

\* initGame with its placement loops followed iteration by iteration.
NextPlace ==
    \/ beginPlace
    \/ PlaceAttempt

SpecPlace == Init /\ [][NextPlace]_vars

SpecGrid == Init /\ [][NextGrid]_vars

TypeOK ==
    /\ gameState \in GameStates
    /\ stage \in 1..MaxStage
    /\ lives \in 0..StartLives
    /\ countdown \in 0..CountdownStart
    /\ tiles \in [TileCodes -> Nat]
    /\ powerMode \in 0..PowerTicks
    /\ wallsLeft \in 0..WallCharges
    /\ witches \in 0..MaxWitches
    /\ DOMAIN ghosts \in {{}, GhostIds}
    /\ eatenPellets \in Nat /\ totalPellets \in Nat
    /\ timeouts \in 0..MaxChains /\ intervals \in 0..MaxChains
    /\ staleFrames \in 0..MaxStaleFrames
    /\ stageWon \in BOOLEAN
    /\ respawned \subseteq GhostIds
    /\ rare \in 0..MaxRare
    /\ score \in Nat
    /\ frame.on \in BOOLEAN
    /\ gridFrames \in 0..MaxGridFrames \cup 0..MaxChaseFrames \cup 0..MaxWalkFrames
                     \cup 0..MaxStrayFrames
    /\ keys \in 0..MaxKeys
    /\ placing.loop \in {"none", "candies", "tombstones"}
    /\ placing.attempts \in 0..MaxAttempts
    /\ DOMAIN ghostAt \in {{}, GhostIds}
    /\ DOMAIN sinceAligned = DOMAIN ghostAt
    /\ \A g \in DOMAIN sinceAligned : sinceAligned[g] \in 0..TILE_SIZE
    /\ pacman.dir \in Dirs \cup {"NONE"} /\ pacman.nextDir \in Dirs \cup {"NONE"}

----------------------------------------------------------------------------
(***************************************************************************)
(* The ghost state machine of the ghost loop: the flags are tested in the  *)
(* order isDying (line 698), isEaten (lines 741, 763), isScared (line 742).*)
(***************************************************************************)
GhostState(g) ==
    IF g.isDying THEN "DYING"
    ELSE IF g.isEaten THEN "EATEN"
    ELSE IF g.isScared THEN "SCARED"
    ELSE "NORMAL"

\* A step that keeps the maze: neither startGame nor nextStage.
SameStage ==
    /\ stage' = stage
    /\ ~(gameState = "START" /\ gameState' = "PLAYING")

----------------------------------------------------------------------------
\* C1: in every reachable state eatenPellets <= totalPellets, the pickups of
\* respawned and bonus candies included.
C1_PelletAccounting == eatenPellets <= totalPellets

\* A won maze in which the pickups and the edible tiles still lying around
\* add up to more than the count taken at creation.
C1_Witness ==
    /\ gameState = "WON"
    /\ eatenPellets + tiles[PELLET] + tiles[POWER_CANDY] > totalPellets

\* C2: at the end of every tick the power-mode timer is 0 or every ghost
\* that is neither EATEN nor DYING is SCARED.
C2_PowerExclusive ==
    \/ powerMode = 0
    \/ \A g \in DOMAIN ghosts :
          GhostState(ghosts[g]) \notin {"EATEN", "DYING"}
             => GhostState(ghosts[g]) = "SCARED"

\* C3: whenever the power-mode timer is 0, no ghost is SCARED (no ghost even
\* carries the isScared flag).
C3_NoScaredWithoutPower ==
    powerMode = 0 => \A g \in DOMAIN ghosts : ~ghosts[g].isScared

\* Power mode ran out on a ghost that the candy had scared: charges of the
\* candy are left, no life was lost, no low-probability draw succeeded, and
\* the ghost is NORMAL.
C3_Witness ==
    /\ gameState = "PLAYING"
    /\ powerMode = 0
    /\ wallsLeft > 0
    /\ lives = StartLives
    /\ rare = 0
    /\ \E g \in DOMAIN ghosts : GhostState(ghosts[g]) = "NORMAL"

\* C4: within a stage a DYING ghost counts its timer down by one per tick
\* and the only state that follows DYING is EATEN.
C4_DyingResolvesToEaten ==
    [][SameStage =>
          \A g \in DOMAIN ghosts :
             ghosts[g].isDying /\ ghosts'[g] # ghosts[g] =>
                IF ghosts[g].deathTimer > 1
                THEN /\ ghosts'[g].isDying
                     /\ ghosts'[g].deathTimer = ghosts[g].deathTimer - 1
                ELSE GhostState(ghosts'[g]) = "EATEN"]_vars

\* C5: within a stage a ghost leaves EATEN only in a frame in which its
\* respawn draw succeeded.
C5_RespawnOnlyByDraw ==
    [][SameStage =>
          \A g \in DOMAIN ghosts :
             GhostState(ghosts[g]) = "EATEN" /\ GhostState(ghosts'[g]) # "EATEN"
                => g \in respawned']_vars

\* C6: once the run state is GAMEOVER it stays GAMEOVER until the user asks
\* for the title screen; nothing moves it to COUNTDOWN or PLAYING.
C6_GameOverTerminal ==
    [][gameState = "GAMEOVER" => gameState' \in {"GAMEOVER", "START"}]_vars

\* C7: the stage number changes only by the reset to 1 of a new run, or by
\* exactly +1 after the win check fired for the current maze of the current
\* run.
C7_StageChange ==
    [][stage' # stage =>
          \/ stage' = 1 /\ gameState = "START" /\ gameState' = "PLAYING"
          \/ stage' = stage + 1 /\ stageWon]_vars

\* C8: whenever a pickup takes eatenPellets/totalPellets to 0.75 or more
\* while the state is PLAYING, the state is WON at the end of that tick.
C8_WinOnThreshold ==
    [][/\ gameState = "PLAYING"
       /\ totalPellets' = totalPellets
       /\ eatenPellets' > eatenPellets
       /\ WinReached(eatenPellets', totalPellets')
       => gameState' = "WON"]_vars

\* C9: a tick in which lives reaches 0 ends in GAMEOVER, whatever else
\* happened in the tick.
C9_GameOverAtZero ==
    [][lives' = 0 /\ lives > 0 => gameState' = "GAMEOVER"]_vars

\* The last life was lost in the frame whose win check fired: the win timer
\* is pending and the state is GAMEOVER.
C9_Witness ==
    /\ gameState = "GAMEOVER"
    /\ lives = 0
    /\ stageWon
    /\ timeouts > 0

\* C10: lives stays in 0..3, rises only when a new run starts, and is left
\* unchanged by a stage advance.
C10_LivesMonotone ==
    /\ [](lives \in 0..StartLives)
    /\ [][/\ lives' > lives =>
               gameState = "START" /\ gameState' = "PLAYING" /\ stage' = 1
          /\ stage' = stage + 1 => lives' = lives]_vars

\* A later stage reached with fewer lives than a run starts with.
C10_Witness ==
    /\ gameState = "PLAYING"
    /\ stage > 1
    /\ lives \in 1..(StartLives - 1)

\* C11: lives is never decremented in a tick that starts with the power
\* timer above 0.
C11_NoLossUnderPower ==
    [][powerMode > 0 => lives' >= lives]_vars

\* C12: a wall or a tombstone is destroyed only when the charge counter was
\* above 0 just before.
C12_DestroyNeedsCharge ==
    [][/\ SameStage
       /\ \/ tiles'[WALL] < tiles[WALL]
          \/ tiles'[TOMBSTONE] < tiles[TOMBSTONE] /\ powerMode > 0
       => wallsLeft > 0]_vars

\* C13: the charge counter is never negative; it stays between 0 and the
\* number of charges a power candy gives.
C13_ChargesInRange == wallsLeft \in 0..WallCharges

\* The charges were used up by a wall, and the tombstone was then destroyed
\* under power (no life was lost): the counter stayed at 0.
C13_Witness ==
    /\ gameState = "PLAYING"
    /\ wallsLeft = 0
    /\ BrokenWalls > 0
    /\ tiles[TOMBSTONE] = 0
    /\ lives = StartLives
    /\ rare = 0

\* C16: the score is never negative; a step lowers it only by starting a new run, which sets it to 0; a stage advance leaves it as it is.
C16_ScoreMonotone ==
    [][/\ score' >= 0
       /\ score' < score =>
              score' = 0 /\ gameState = "START" /\ gameState' = "PLAYING" /\ stage' = 1
       /\ stage' = stage + 1 => score' = score]_vars

C16_Witness == gameState = "START" /\ stage = MaxStage /\ score > 0
\* C17: a frame in which the player, with no power and one life left, steps on a tombstone ends with no lives, in GAMEOVER, and without resetPositions.
C17_LastLifeOnTombstone ==
    [][(/\ frame'.on
        /\ frame'.cell = TOMBSTONE
        /\ powerMode = 0
        /\ lives = 1)
       => lives' = 0 /\ gameState' = "GAMEOVER" /\ ~frame'.reset]_vars

C17_Witness ==
    /\ frame.on
    /\ frame.cell = TOMBSTONE
    /\ frame.whit = 0
    /\ \A g \in GhostIds : ~frame.hit[g]
    /\ lives = 0
    /\ gameState = "GAMEOVER"

\* C18: a frame in which the player eats a power candy while no ghost is EATEN ends with every ghost SCARED (or DYING, if the player caught it in that same frame), the power timer at the full duration less the countdown of the same frame, and the full number of charges.
C18_CandyScaresAll ==
    [][(/\ frame'.on
        /\ frame'.cell = POWER_CANDY
        /\ \A g \in DOMAIN ghosts : GhostState(ghosts[g]) # "EATEN")
       => /\ \A g \in DOMAIN ghosts' :
                \/ GhostState(ghosts'[g]) = "SCARED"
                \/ GhostState(ghosts'[g]) = "DYING" /\ g \in frame'.popups
          /\ powerMode' = PowerCountdown(PowerTicks)
          /\ wallsLeft' = WallCharges]_vars

\* C19: a frame in which a SCARED ghost is within the collision distance of the player (power not running out in that frame) ends with that ghost DYING with the full death timer, a popup emitted for it, the score raised by exactly 200 for each ghost caught on top of the tile and wall points of the frame, and no life lost except to a witch or another ghost.
C19_ScaredGhostCaught ==
    [][\A g \in DOMAIN ghosts :
          (/\ frame'.on
           /\ frame'.hit[g]
           /\ GhostState(ghosts[g]) = "SCARED"
           /\ powerMode # 1)
          => /\ GhostState(ghosts'[g]) = "DYING"
             /\ ghosts'[g].deathTimer = DeathTicks
             /\ g \in frame'.popups
             /\ score' = score + GhostScore * Cardinality(frame'.popups)
                               + ScoreGain(powerMode, frame'.cell, frame'.brk, 0)
             /\ lives - lives' <= frame'.whit
                    + Cardinality({h \in GhostIds : frame'.hit[h] /\ h \notin frame'.popups})]_vars

\* C20 as stated: a frame that finds a pellet under the player raises the score by exactly 10 for the pellet (on top of 200 for each ghost caught), raises eatenPellets by exactly 1 and leaves that tile EMPTY.
C20_PelletEaten ==
    [][(frame'.on /\ frame'.cell = PELLET)
       => /\ score' = score + PelletScore + GhostScore * Cardinality(frame'.popups)
          /\ eatenPellets' = eatenPellets + 1
          /\ frame'.under = EMPTY]_vars

\* C20: a frame that finds a pellet under the player raises the score by exactly 10 for the pellet, raises eatenPellets by exactly 1 and empties that tile; the tile is EMPTY at the end of the frame unless the bonus candy or the fruit placed in the same frame landed on it.
C20_PelletEatenOrRefilled ==
    [][(frame'.on /\ frame'.cell = PELLET)
       => /\ score' = score + PelletScore + GhostScore * Cardinality(frame'.popups)
          /\ eatenPellets' = eatenPellets + 1
          /\ tiles'[PELLET] = tiles[PELLET] - 1
          /\ \/ frame'.under = EMPTY
             \/ /\ frame'.under \in {POWER_CANDY, FRUIT}
                /\ tiles'[frame'.under] = tiles[frame'.under] + 1]_vars

C20_Witness == frame.on /\ frame.cell = PELLET /\ frame.under = POWER_CANDY /\ score = PelletScore

----------------------------------------------------------------------------
(***************************************************************************)
(* The tiles the player can reach from tile c of maze m by steps to the    *)
(* four neighbours over EMPTY, PELLET and POWER_CANDY tiles.               *)
(***************************************************************************)
Passable == {EMPTY, PELLET, POWER_CANDY}

RECURSIVE Flood(_, _)
Flood(m, S) ==
    LET N == {c \in Cells :
                 /\ m[c[2]][c[1]] \in Passable
                 /\ \E d \in S : \/ d[1] = c[1] /\ d[2] - c[2] \in {-1, 1}
                                 \/ d[2] = c[2] /\ d[1] - c[1] \in {-1, 1}}
    IN IF N \subseteq S THEN S ELSE Flood(m, S \cup N)

Unreachable(m) ==
    {c \in Cells : m[c[2]][c[1]] \in {PELLET, POWER_CANDY}} \ Flood(m, {SpawnTile})

\* C14: in the maze a stage starts with, every PELLET and POWER_CANDY tile can be reached from the player's spawn tile by steps to the four neighbours over EMPTY, PELLET and POWER_CANDY tiles.
C14_FoodReachable ==
    (gameState = "PLAYING" /\ gridFrames = 0) => Unreachable(maze) = {}

\* C15: every tile of the top and of the bottom row of the maze is WALL in every state of a stage, and every tile of the leftmost and of the rightmost column is WALL in the maze a stage starts with.
C15_BorderClosed ==
    maze # <<>> =>
        /\ \A x \in Cols : maze[0][x] = WALL /\ maze[GRID_HEIGHT - 1][x] = WALL
        /\ gridFrames = 0 =>
               \A y \in Rows : maze[y][0] = WALL /\ maze[y][GRID_WIDTH - 1] = WALL

----------------------------------------------------------------------------
C22_NewRun ==
    [][(gameState = "START" /\ gameState' = "PLAYING" /\ intervals' = intervals)
       => /\ stage' = 1
          /\ score' = 0
          /\ lives' = StartLives
          /\ [tiles |-> tiles', total |-> totalPellets'] \in StageLayouts
          /\ eatenPellets' = 0
          /\ powerMode' = 0
          /\ wallsLeft' = 0]_vars

C22_Witness ==
    /\ gameState = "PLAYING"
    /\ stage = 1
    /\ score = 0
    /\ lives = StartLives
    /\ eatenPellets = 0
    /\ timeouts > 0

\* C23: every ghost has at most one of isScared, isEaten and isDying set; in particular isEaten and isScared are never both true.
C23_OneFlag ==
    \A g \in DOMAIN ghosts :
        /\ ~(ghosts[g].isScared /\ ghosts[g].isEaten)
        /\ ~(ghosts[g].isScared /\ ghosts[g].isDying)
        /\ ~(ghosts[g].isEaten /\ ghosts[g].isDying)

C30_CandyTileEmptied ==
    [][(frame'.on /\ frame'.cell = POWER_CANDY)
       => /\ frame'.under = EMPTY \/ rare' > rare
          /\ tiles'[POWER_CANDY] <= tiles[POWER_CANDY] + (rare' - rare)]_vars

----------------------------------------------------------------------------
\* The tile next to the tile-aligned position a in direction d.
TileAhead(m, a, d) ==
    TileAt(m, FloorTile(a.x) + (CASE d = "LEFT" -> -1 [] d = "RIGHT" -> 1 [] OTHER -> 0),
              FloorTile(a.y) + (CASE d = "UP" -> -1 [] d = "DOWN" -> 1 [] OTHER -> 0))

\* C24: in a frame that a NORMAL or SCARED ghost starts aligned with the tiles (and that resets no positions), the heading the ghost takes does not point at a WALL tile, whatever the player's power timer and charges, and it is the reverse of the heading it had only if every other direction points at a WALL tile or out of the grid.
C24_GhostAvoidsWalls ==
    [][\A g \in DOMAIN ghostAt :
          (/\ gridFrames' = gridFrames + 1
           /\ lives' = lives
           /\ ~OutOfBounds(MovePacman(maze, pacman, powerMode, wallsLeft).pacman)
           /\ GhostState(ghosts[g]) \in {"NORMAL", "SCARED"}
           /\ ghostAt[g].x % TILE_SIZE = 0 /\ ghostAt[g].y % TILE_SIZE = 0)
          => /\ TileAhead(maze', ghostAt[g], ghostAt'[g].dir) # WALL
             /\ ghostAt'[g].dir = Opposite(ghostAt[g].dir)
                   => \A d \in Dirs \ {ghostAt'[g].dir} :
                          TileAhead(maze', ghostAt[g], d) \in {WALL, -1}]_vars

----------------------------------------------------------------------------
\* The queued direction is taken in the frame that starts in this state: it
\* is set, the player is aligned with the tiles on both axes, and the tile
\* next to the player in that direction is past the left or right edge, or
\* is in the grid and not a WALL, or is a WALL while the power timer runs
\* and a charge is left.
Turns ==
    LET tx == FloorTile(pacman.x) + (CASE pacman.nextDir = "LEFT" -> -1
                                       [] pacman.nextDir = "RIGHT" -> 1
                                       [] OTHER -> 0)
        ty == FloorTile(pacman.y) + (CASE pacman.nextDir = "UP" -> -1
                                       [] pacman.nextDir = "DOWN" -> 1
                                       [] OTHER -> 0)
    IN /\ pacman.nextDir # "NONE"
       /\ pacman.x % TILE_SIZE = 0 /\ pacman.y % TILE_SIZE = 0
       /\ \/ tx \notin Cols
          \/ /\ ty \in Rows
             /\ maze[ty][tx] = WALL => powerMode > 0 /\ wallsLeft > 0

\* The frame from this state to the next puts the player back at the start:
\* a life is lost with lives to spare (lines 651-655), or the player is out of
\* bounds (lines 605-609).
ResetTick ==
    \/ lives' < lives /\ lives > 1
    \/ OutOfBounds(MovePacman(maze, pacman, powerMode, wallsLeft).pacman)

\* C25 as stated: the player's direction changes only in a frame in which the queued direction is taken, and that frame empties the queue; every other frame keeps the queued direction, unless it resets the positions.
C25_TurnOnly ==
    [][gridFrames' = gridFrames + 1
       => /\ pacman'.dir # pacman.dir => Turns /\ pacman'.nextDir = "NONE"
          /\ Turns /\ ~ResetTick => pacman'.dir = pacman.nextDir /\ pacman'.nextDir = "NONE"
          /\ ~Turns /\ ~ResetTick => pacman'.nextDir = pacman.nextDir]_vars

\* C25: a frame that resets no positions takes the queued direction and empties the queue if the player is aligned with the tiles and canMove accepts the queued direction, and keeps both the direction and the queue otherwise; a frame that resets the positions leaves the player without direction and with an empty queue; a key press leaves the direction as it is.
C25_TurnOrReset ==
    [][/\ (gridFrames' = gridFrames + 1 /\ ~ResetTick)
          => IF Turns
             THEN pacman'.dir = pacman.nextDir /\ pacman'.nextDir = "NONE"
             ELSE pacman'.dir = pacman.dir /\ pacman'.nextDir = pacman.nextDir
       /\ (gridFrames' = gridFrames + 1 /\ ResetTick)
          => pacman'.dir = "NONE" /\ pacman'.nextDir = "NONE"
       /\ (gridFrames' = gridFrames /\ gameState' = gameState)
          => pacman'.dir = pacman.dir]_vars

\* The player has turned to a wall of the bottom row under power and broken it.
C25_Witness ==
    /\ gameState = "PLAYING"
    /\ pacman.dir = "DOWN"
    /\ pacman.nextDir = "NONE"
    /\ pacman.y > (GRID_HEIGHT - 2) * TILE_SIZE
    /\ BrokenWalls = 1

\* C26: once a maze is set up, the player's y is between 0 and (GRID_HEIGHT - 1) * TILE_SIZE and the player's x between -TILE_SIZE and CANVAS_WIDTH, with or without power and charges.
C26_PlayerInBounds ==
    maze # <<>> =>
        /\ pacman.y >= 0 /\ pacman.y <= (GRID_HEIGHT - 1) * TILE_SIZE
        /\ pacman.x >= -TILE_SIZE /\ pacman.x <= CANVAS_WIDTH

\* C29: no placement loop runs more iterations than the retry budget: it has placed its tiles or given up by then.
C29_BoundedAttempts == placing.attempts <= RetryBudget


----------------------------------------------------------------------------
\* C32: whenever the game is PLAYING at least one life is left.
C32_PlayingHasLives == gameState = "PLAYING" => lives >= 1

\* C33: a frame lowers lives by at most 1: after the first life lost in a frame no further collision of that frame costs a life.
C33_OneLifePerFrame ==
    [][frame'.on => lives - lives' <= 1]_vars

\* C36: in the maze a stage starts with, the tile the player starts on is EMPTY.
C36_SpawnTileEmpty ==
    (gameState = "PLAYING" /\ gridFrames = 0)
        => TileAt(maze, SpawnTile[1], SpawnTile[2]) = EMPTY

----------------------------------------------------------------------------
\* A frame that costs a life and leaves one.
LifeLossTick ==
    /\ gridFrames' = gridFrames + 1
    /\ lives' < lives
    /\ lives' > 0

\* The tile under the player in the frame that starts in this state (lines
\* 611-613).
PlayerTile ==
    LET pm == MovePacman(maze, pacman, powerMode, wallsLeft).pacman
    IN <<RoundTile(pm.x), RoundTile(pm.y)>>

\* The player and the ghosts are where a stage starts them, the ghosts NORMAL.
AtStartPositions ==
    /\ pacman' = StartPacman
    /\ ghostAt' = [g \in GhostIds |-> StartGhost(g)]
    /\ \A g \in GhostIds : GhostState(ghosts'[g]) = "NORMAL"

----------------------------------------------------------------------------
\* C34: a ghost that is not DYING and has a direction stands aligned with the tiles on both axes again at most TILE_SIZE frames (a tile at the SCARED speed of 1) after it last did, whatever the changes between the two speeds; so the tile that holds its centre is never a WALL and it stays between the top and the bottom row.
C34_GhostsRealign ==
    \A g \in DOMAIN ghostAt :
        (~ghosts[g].isDying /\ ghostAt[g].dir # "NONE")
        => /\ sinceAligned[g] < TILE_SIZE
           /\ ghostAt[g].y >= 0 /\ ghostAt[g].y <= (GRID_HEIGHT - 1) * TILE_SIZE
           /\ TileAt(maze, FloorTile(ghostAt[g].x + TILE_SIZE \div 2),
                     FloorTile(ghostAt[g].y + TILE_SIZE \div 2)) # WALL
====
